---- MODULE Spec2Model ----
(***************************************************************************)
(* libmemory/native_memory.c: native_malloc, native_calloc and native_free *)
(* forward to the C library's malloc, calloc and free.  The model is the   *)
(* three forwarders on top of a C heap that behaves as ISO C 7.22.3        *)
(* requires of malloc, calloc and free.                                     *)
(***************************************************************************)
EXTENDS Integers, FiniteSets, Sequences, TLC

\* Number of byte cells of the heap, addressed 1..NAddr.
NAddr == 2

\* Width of size_t in bits.
SizeBits == 2

\* Largest count or size a caller passes.
MaxReq == 3

\* Number of concurrent workers.
NWorkers == 2

VARIABLES
    live,        \* live blocks of the C heap: base pointer -> requested size
    mem,         \* contents of the heap's byte cells
    heapOk,      \* FALSE once an invalid free has corrupted the C heap
    running,     \* FALSE once the process has been aborted
    zeroPolicy,  \* what the platform's malloc(0) yields: "null" or "unique"
    plat,        \* the last call the C library received, and its result
    call,        \* the caller's last operation, and what it got back
    held,        \* the blocks the caller holds: pointer -> size it asked for
    wk           \* each concurrent worker's position, block and canary

vars == <<live, mem, heapOk, running, zeroPolicy, plat, call, held, wk>>

NULL == 0
Addr == 1..NAddr
Ptr == 0..NAddr
\* A byte is zero or not: 1 stands for any non-zero byte.
Byte == {0, 1}
Workers == 1..NWorkers

RECURSIVE Pow2(_)
Pow2(n) == IF n = 0 THEN 1 ELSE 2 * Pow2(n - 1)

\* size_t holds 0 .. SizeMod - 1.
SizeMod == Pow2(SizeBits)
SizeT == 0..(SizeMod - 1)

\* The counts and sizes callers pass.
Req == {n \in SizeT : n <= MaxReq}

\* The cells a block at p of the given size reserves; a block of size 0
\* still has an address of its own.
Extent(p, size) == p..(p + (IF size = 0 THEN 1 ELSE size) - 1)

\* The bytes of the block the caller may use.
Region(p, size) == p..(p + size - 1)

Used == UNION {Extent(q, live[q]) : q \in DOMAIN live}

Fits(p, size) == Extent(p, size) \subseteq Addr

\* Where a new block of the given size may be placed.  A sound heap places
\* it on unused cells only; a corrupted heap may hand out cells of a live
\* block again.
Candidates(size) ==
    IF heapOk
    THEN {p \in Addr : Fits(p, size) /\ Extent(p, size) \cap Used = {}}
    ELSE {p \in Addr \ DOMAIN live : Fits(p, size)}

\* The outcomes of an allocation of `size` bytes: NULL, or a fresh block.
\* malloc(0) is implementation-defined: NULL, or a pointer to free later.
Outcomes(size) ==
    {NULL} \cup (IF size = 0 /\ zeroPolicy = "null" THEN {} ELSE Candidates(size))

Allocate(size, r) ==
    /\ r \in Outcomes(size)
    /\ live' = IF r = NULL THEN live ELSE live @@ (r :> size)

Record(op, a, b, r) == [op |-> op, a |-> a, b |-> b, ret |-> r]

\* void *malloc(size_t size): the block's contents are indeterminate
\* (whatever the cells held before).
malloc(size, r) ==
    /\ Allocate(size, r)
    /\ plat' = Record("malloc", size, 0, r)
    /\ UNCHANGED <<mem, heapOk, running>>

Zeroed(p, size) == [x \in Addr |-> IF x \in Region(p, size) THEN 0 ELSE mem[x]]

\* void *calloc(size_t nmemb, size_t size): NULL when nmemb * size does not
\* fit size_t, else an allocation of nmemb * size bytes, all bits zero.
calloc(count, size, r) ==
    /\ IF count * size >= SizeMod
       THEN r = NULL /\ UNCHANGED <<live, mem>>
       ELSE /\ Allocate(count * size, r)
            /\ mem' = IF r = NULL THEN mem ELSE Zeroed(r, count * size)
    /\ plat' = Record("calloc", count, size, r)
    /\ UNCHANGED <<heapOk, running>>

Release(ptr) == [q \in DOMAIN live \ {ptr} |-> live[q]]

\* void free(void *ptr): no action for NULL; releases a live block; any
\* other pointer is undefined behaviour: the process aborts, or the call
\* has no visible effect, or the heap's bookkeeping is corrupted.
free(ptr) ==
    /\ plat' = Record("free", ptr, 0, 0)
    /\ IF ptr = NULL
       THEN UNCHANGED <<live, mem, heapOk, running>>
       ELSE IF ptr \in DOMAIN live
       THEN live' = Release(ptr) /\ UNCHANGED <<mem, heapOk, running>>
       ELSE \/ running' = FALSE /\ UNCHANGED <<live, mem, heapOk>>
            \/ UNCHANGED <<live, mem, heapOk, running>>
            \/ heapOk' = FALSE /\ UNCHANGED <<live, mem, running>>

\* Faulty variants of the forwarders, each with one slip; the properties
\* below tell each of them from the forwarder it replaces.
\* The size is narrowed to half the width of size_t on its way to malloc.
native_malloc_narrow(size, r) == malloc(size % (SizeMod \div 2), r)

\* A request that cannot be met is retried with half the size.
native_malloc_partial(size, r) ==
    \/ malloc(size, r)
    \/ Candidates(size) = {} /\ malloc(size \div 2, r)

\* A size of 0 is raised to 1 before the call.
native_malloc_min1(size, r) == malloc(IF size = 0 THEN 1 ELSE size, r)

\* malloc(count * size) and memset: the product wraps around.
native_calloc_truncating(count, size, r) ==
    /\ Allocate((count * size) % SizeMod, r)
    /\ mem' = IF r = NULL THEN mem ELSE Zeroed(r, (count * size) % SizeMod)
    /\ plat' = Record("malloc", (count * size) % SizeMod, 0, r)
    /\ UNCHANGED <<heapOk, running>>

\* malloc in place of calloc: the block is not zeroed.
native_calloc_noZero(count, size, r) ==
    IF count * size >= SizeMod
    THEN r = NULL /\ plat' = Record("malloc", 0, 0, r)
         /\ UNCHANGED <<live, mem, heapOk, running>>
    ELSE malloc(count * size, r)

\* The two arguments change places.
native_calloc_swapped(count, size, r) == calloc(size, count, r)

\* The call to free is left out.
native_free_dropped(ptr) == UNCHANGED <<live, mem, heapOk, running, plat>>

\* The pointer's header is read before the call: NULL is not passed on.
native_free_noNull(ptr) ==
    IF ptr = NULL
    THEN running' = FALSE /\ UNCHANGED <<live, mem, heapOk, plat>>
    ELSE free(ptr)

\* void* native_malloc(size_t size) { return malloc(size); }
native_malloc(size, r) == malloc(size, r)

\* void* native_calloc(size_t count, size_t size) { return calloc(count, size); }
native_calloc(count, size, r) == calloc(count, size, r)

\* void native_free(void* ptr) { free(ptr); }
native_free(ptr) == free(ptr)

Called(op, a, b, r, was) == [op |-> op, a |-> a, b |-> b, ret |-> r, was |-> was]

Init ==
    /\ live = <<>>
    /\ mem = [x \in Addr |-> 0]
    /\ heapOk = TRUE
    /\ running = TRUE
    /\ zeroPolicy \in {"null", "unique"}
    /\ plat = [op |-> "none", a |-> 0, b |-> 0, ret |-> 0]
    /\ call = Called("none", 0, 0, 0, "none")
    /\ held = <<>>
    /\ wk = [w \in Workers |->
             [pc |-> "idle", size |-> 0, ptr |-> NULL, canary |-> 0,
              helped |-> FALSE]]

\* The caller's bookkeeping of a returned pointer.
Keep(r, size) == IF r = NULL THEN held ELSE (r :> size) @@ held

Drop(ptr) == [q \in DOMAIN held \ {ptr} |-> held[q]]

\* Whether a cell of the region holds a non-zero byte.
Dirty(p, size) == \E x \in Region(p, size) \cap Addr : mem[x] # 0

\* A caller calls native_malloc.
Malloc ==
    /\ running
    /\ \E size \in Req, r \in Ptr :
          /\ native_malloc(size, r)
          /\ call' = Called("native_malloc", size, 0, r, "none")
          /\ held' = Keep(r, size)
    /\ UNCHANGED <<zeroPolicy, wk>>

\* A caller calls native_calloc.
Calloc ==
    /\ running
    /\ \E count \in Req, size \in Req, r \in Ptr :
          /\ native_calloc(count, size, r)
          /\ call' = Called("native_calloc", count, size, r,
                            IF r # NULL /\ Dirty(r, count * size)
                            THEN "dirty" ELSE "clean")
          /\ held' = Keep(r, count * size)
    /\ UNCHANGED <<zeroPolicy, wk>>

\* What the pointer passed to native_free designates: a block the caller
\* holds, the block the previous call freed, the null pointer, or none.
Designates(ptr) ==
    IF ptr = NULL THEN "null"
    ELSE IF ptr \in DOMAIN held THEN "live"
    ELSE IF call.op = "native_free" /\ call.a = ptr /\ call.was = "live"
    THEN "freed" ELSE "other"

\* A caller calls native_free, with any pointer value.
Free ==
    /\ running
    /\ \E ptr \in Ptr :
          /\ native_free(ptr)
          /\ call' = Called("native_free", ptr, 0, 0, Designates(ptr))
          /\ held' = Drop(ptr)
    /\ UNCHANGED <<zeroPolicy, wk>>

\* A caller stores a byte into a block it holds.
Store ==
    /\ running
    /\ \E p \in DOMAIN held :
          \E i \in 0..(held[p] - 1), v \in Byte :
             /\ p + i \in Addr
             /\ mem' = [mem EXCEPT ![p + i] = v]
             /\ call' = Called("store", p, 0, 0, "live")
    /\ UNCHANGED <<live, heapOk, running, zeroPolicy, plat, held, wk>>

Next == Malloc \/ Calloc \/ Free \/ Store

Spec == Init /\ [][Next]_vars

----------------------------------------------------------------------------
\* Concurrent workers.  The C library's allocation calls are atomic with
\* respect to each other (ISO C 7.22.3: they occur in a single total
\* order); a worker may be preempted between the library call inside the
\* shim and the shim's return.

\* The value the forwarder shares between callers instead.
Returned_static(w) == plat.ret

\* The value native_malloc returns to worker w: the result of w's own call.
Returned(w) == wk[w].ptr

\* Worker w starts a cycle: it enters native_malloc, which calls malloc.
WCall(w) ==
    /\ running
    /\ wk[w].pc = "idle"
    /\ \E size \in Req \cap Addr, r \in Ptr :
          /\ native_malloc(size, r)
          /\ wk' = [wk EXCEPT ![w] = [pc |-> "ret", size |-> size, ptr |-> r,
                                      canary |-> 0, helped |-> FALSE]]
    /\ UNCHANGED <<zeroPolicy, call, held>>

\* native_malloc returns to worker w; a null result ends the cycle.
WReturn(w) ==
    /\ running
    /\ wk[w].pc = "ret"
    /\ wk' = [wk EXCEPT ![w] =
                 IF Returned(w) = NULL
                 THEN [@ EXCEPT !.pc = "idle", !.size = 0, !.ptr = NULL]
                 ELSE [@ EXCEPT !.pc = "got", !.ptr = Returned(w)]]
    /\ UNCHANGED <<live, mem, heapOk, running, zeroPolicy, plat, call, held>>

\* Worker w fills its block with a canary byte.
WFill(w) ==
    /\ running
    /\ wk[w].pc = "got"
    /\ \E v \in Byte :
          /\ mem' = [x \in Addr |->
                       IF x \in Region(wk[w].ptr, wk[w].size) THEN v ELSE mem[x]]
          /\ wk' = [wk EXCEPT ![w] = [@ EXCEPT !.pc = "filled", !.canary = v]]
    /\ UNCHANGED <<live, heapOk, running, zeroPolicy, plat, call, held>>

\* Worker w calls native_free on the filled block of worker v, its own or
\* one handed over by another worker; that ends v's cycle.
WFree(w, v) ==
    /\ running
    /\ wk[v].pc = "filled"
    /\ w = v \/ wk[w].pc # "ret"
    /\ native_free(wk[v].ptr)
    /\ wk' = [wk EXCEPT ![v] = [pc |-> "idle", size |-> 0, ptr |-> NULL,
                                canary |-> 0, helped |-> w # v]]
    /\ UNCHANGED <<zeroPolicy, call, held>>

NextW ==
    \E w \in Workers :
       \/ WCall(w)
       \/ WReturn(w)
       \/ WFill(w)
       \/ \E v \in Workers : WFree(w, v)

\* The workers ask for at least one byte, so what malloc(0) yields plays no
\* part; the cycles go on without end, which covers every number of cycles.
InitWorkers == Init /\ zeroPolicy = "unique"

SpecWorkers == InitWorkers /\ [][NextW]_vars


----------------------------------------------------------------------------
\* What the caller can tell from the value a call returned: a block, or the
\* null pointer with which the C library reports that it could not allocate.
Result(c) == IF c.ret = NULL THEN "OutOfMemory" ELSE "Block"

IsAlloc(c) == c.op \in {"native_malloc", "native_calloc"}

\* The number of bytes an allocation call asked for.
Asked(c) == IF c.op = "native_calloc" THEN c.a * c.b ELSE c.a

Overflows(c) == c.op = "native_calloc" /\ c.a * c.b >= SizeMod

HeapUnchanged == UNCHANGED <<live, mem, heapOk, running>>

\* No two blocks the caller holds share a cell, and each lies in the heap.
NoOverlap ==
    \A p \in DOMAIN held :
       /\ Region(p, held[p]) \subseteq Addr
       /\ \A q \in DOMAIN held \ {p} :
             Extent(p, held[p]) \cap Extent(q, held[q]) = {}

\* A block's bytes are the same after the step as before it.
SameBytes(p) == \A x \in Region(p, held[p]) \cap Addr : mem'[x] = mem[x]

\* A free of a block the caller holds releases that block and nothing else.
FirstFreeValid ==
    (call'.op = "native_free" /\ call'.was = "live")
       => /\ running' /\ heapOk' = heapOk /\ mem' = mem
          /\ live' = Release(call'.a)

C6_BlockOrFailure ==
    [][IsAlloc(call') =>
          /\ \/ /\ Result(call') = "OutOfMemory"
                /\ live' = live
             \/ /\ Result(call') = "Block"
                /\ call'.ret \in DOMAIN live' \ DOMAIN live
                /\ live'[call'.ret] >= Asked(call')
                /\ Region(call'.ret, Asked(call')) \subseteq Addr
                /\ \A q \in DOMAIN live : q \in DOMAIN live' /\ live'[q] = live[q]
          /\ (~Overflows(call') /\ Candidates(Asked(call')) = {})
                => Result(call') = "OutOfMemory"]_vars

C6_Witness ==
    /\ call.op = "native_malloc" /\ call.a \in 1..NAddr
    /\ Result(call) = "OutOfMemory"
    /\ Candidates(call.a) = {}

C8_ZeroFilled ==
    (call.op = "native_calloc" /\ call.ret # NULL)
       => \A x \in Region(call.ret, call.a * call.b) : x \in Addr /\ mem[x] = 0

C8_Witness ==
    call.op = "native_calloc" /\ call.ret # NULL /\ call.was = "dirty"

Holding(w) == wk[w].pc \in {"got", "filled"}

\* C5: under every interleaving of the workers' cycles, the blocks two
\* workers hold at the same time are live and share no cell, and a filled
\* block keeps its canary until it is freed.
C5_WorkersIsolated ==
    /\ \A w \in Workers :
          Holding(w) =>
             /\ wk[w].ptr \in DOMAIN live
             /\ Region(wk[w].ptr, wk[w].size) \subseteq Addr
             /\ \A v \in Workers \ {w} :
                   Holding(v) =>
                      Region(wk[w].ptr, wk[w].size)
                         \cap Region(wk[v].ptr, wk[v].size) = {}
    /\ \A w \in Workers :
          wk[w].pc = "filled" =>
             \A x \in Region(wk[w].ptr, wk[w].size) : mem[x] = wk[w].canary

C5_Witness ==
    \E w \in Workers, v \in Workers :
       /\ wk[v].pc = "idle" /\ wk[v].helped
       /\ wk[w].pc = "filled" /\ wk[w].canary # 0
       /\ \E x \in Addr \ Region(wk[w].ptr, wk[w].size) : mem[x] # 0

\* C10: each shim call is one call of the C library's function of the same
\* kind with the same arguments, returns its result, and moves the heap
\* exactly as that direct call does.
C10_Forwarders ==
    /\ [](/\ call.op = "native_malloc"
             => plat = Record("malloc", call.a, 0, call.ret)
          /\ call.op = "native_calloc"
             => plat = Record("calloc", call.a, call.b, call.ret)
          /\ call.op = "native_free"
             => plat = Record("free", call.a, 0, 0))
    /\ [][/\ call'.op = "native_malloc" => malloc(call'.a, call'.ret)
          /\ call'.op = "native_calloc" => calloc(call'.a, call'.b, call'.ret)
          /\ call'.op = "native_free" => free(call'.a)
          /\ call'.op = "store" => plat' = plat]_vars

C10_Witness ==
    /\ call.op = "native_calloc" /\ call.ret # NULL
    /\ plat = Record("calloc", call.a, call.b, call.ret)
    /\ call.ret \in DOMAIN live

====
